---------------------------- MODULE Spec2Model ----------------------------
(***************************************************************************)
(* Model of package mstypes, file sid.go: the RPCSID value type with its   *)
(* string renderer (String), its binary writer (ToWriter) and its string   *)
(* parser (ConvertStrToSID).                                               *)
(*                                                                         *)
(* Representation.  A Go string is a sequence of one-character strings.    *)
(* A byte is a number in 0..255.  The values of uint32 and uint64 reach    *)
(* 4294967295 and beyond, which is more than the model checker's integers  *)
(* hold, so an unsigned integer of w bits is the sequence of its w/8       *)
(* base-256 digits, most significant first: the uint32 21 is <<0,0,0,21>>. *)
(* A *RPCSID is a sequence of length 0 (nil) or 1 (a pointer to a value).  *)
(***************************************************************************)
EXTENDS Integers, Sequences, FiniteSets, TLC

VARIABLES pc, sid, input, out, res, i, calls, sink, ret

vars == <<pc, sid, input, out, res, i, calls, sink, ret>>

---------------------------------------------------------------------------
(* Characters and numbers                                                  *)

DigitChars == <<"0", "1", "2", "3", "4", "5", "6", "7", "8", "9">>

HexChars == DigitChars \o <<"a", "b", "c", "d", "e", "f">>

IsDigit(c) == \E d \in 1..10 : DigitChars[d] = c

DigitVal(c) == (CHOOSE d \in 1..10 : DigitChars[d] = c) - 1

Zeros(n) == [k \in 1..n |-> 0]

IsZero(b) == \A k \in 1..Len(b) : b[k] = 0

(* uint32(v) of a uint64 v: the low 32 bits. *)
Uint32(v) == SubSeq(v, Len(v) - 3, Len(v))

(* byte(v) of a uint64 v: the low 8 bits. *)
Byte(v) == v[Len(v)]

(* i > math.MaxUint32 for a uint64 i. *)
GtMaxUint32Off(v) ==
    \/ ~IsZero(SubSeq(v, 1, Len(v) - 4))
    \/ Uint32(v) = <<255, 255, 255, 255>>

GtMaxUint32(v) == ~IsZero(SubSeq(v, 1, Len(v) - 4))

(* binary.BigEndian.Uint64(b): b[0] is the most significant byte. *)
BigEndianUint64(b) == [k \in 1..8 |-> b[k]]

(* binary.BigEndian.AppendUint32(buf, v) *)
BigEndianAppendUint32(buf, v) == buf \o <<v[1], v[2], v[3], v[4]>>

(* The bytes binary.Write produces for a uint32 under binary.LittleEndian. *)
LittleEndianPutUint32Off(v) == <<v[1], v[2], v[3], v[4]>>

LittleEndianPutUint32(v) == <<v[4], v[3], v[2], v[1]>>

(* hex.EncodeToString(b): two lowercase hex characters per byte. *)
RECURSIVE HexEncodeToString(_)
HexEncodeToString(b) ==
    IF b = <<>> THEN <<>>
    ELSE <<HexChars[(b[1] \div 16) + 1], HexChars[(b[1] % 16) + 1]>>
            \o HexEncodeToString(Tail(b))

(* The %d verb on an unsigned integer: its decimal digits, by repeated     *)
(* division by ten (long division over the base-256 digits).               *)
RECURSIVE FormatUint(_)
FormatUint(v) ==
    LET n == Len(v)
        r[k \in 0..n] == IF k = 0 THEN 0 ELSE (r[k - 1] * 256 + v[k]) % 10
        q == [k \in 1..n |-> (r[k - 1] * 256 + v[k]) \div 10]
    IN  IF IsZero(q) THEN <<DigitChars[r[n] + 1]>>
        ELSE FormatUint(q) \o <<DigitChars[r[n] + 1]>>

(* n*10 + d on a uint64 n. *)
MulAdd10(n, d) ==
    LET t[k \in 1..8] == n[k] * 10 + (IF k = 8 THEN d ELSE t[k + 1] \div 256)
    IN  [k \in 1..8 |-> t[k] % 256]

NoErr == [kind |-> "nil", cause |-> "nil"]

(* strconv.ParseUint(s, 10, 32): the value as a uint64, or the cause of    *)
(* the failure.  The characters are taken left to right; a character that  *)
(* is no decimal digit is a syntax error, a value above 1<<32 - 1 a range  *)
(* error; the empty string is a syntax error.  (n never exceeds 1<<32 - 1  *)
(* before a step, so the 64-bit cutoff test of the library never fires.)   *)
RECURSIVE ParseDigits(_, _, _)
ParseDigits(s, k, n) ==
    IF k > Len(s) THEN [val |-> n, cause |-> "nil"]
    ELSE IF ~IsDigit(s[k]) THEN [val |-> Zeros(8), cause |-> "syntax"]
    ELSE LET n1 == MulAdd10(n, DigitVal(s[k]))
         IN  IF GtMaxUint32(n1) THEN [val |-> Zeros(8), cause |-> "range"]
             ELSE ParseDigits(s, k + 1, n1)

ParseUintOff(s) == ParseDigits(s, 1, Zeros(8))

ParseUint(s) ==
    IF s = <<>> THEN [val |-> Zeros(8), cause |-> "syntax"]
    ELSE ParseDigits(s, 1, Zeros(8))

(* The positions of sep in s[lo..hi], in increasing order.  (The range is  *)
(* halved at each step to keep the evaluation shallow on long strings.)    *)
RECURSIVE IndexAll(_, _, _, _)
IndexAll(s, sep, lo, hi) ==
    IF lo > hi THEN <<>>
    ELSE IF lo = hi THEN (IF s[lo] = sep THEN <<lo>> ELSE <<>>)
    ELSE LET mid == (lo + hi) \div 2
         IN  IndexAll(s, sep, lo, mid) \o IndexAll(s, sep, mid + 1, hi)

(* strings.Split(s, sep) for a one-character separator: one more part than *)
(* there are separators, each part the text between two neighbours.        *)
Split(s, sep) ==
    LET d == IndexAll(s, sep, 1, Len(s))
        b == <<0>> \o d \o <<Len(s) + 1>>
    IN  [n \in 1..(Len(d) + 1) |-> SubSeq(s, b[n] + 1, b[n + 1] - 1)]

---------------------------------------------------------------------------
(* The RPCSID type                                                         *)

(* RPCSID{}: the zero value. *)
EmptySID ==
    [Revision |-> 0, SubAuthorityCount |-> 0,
     IdentifierAuthority |-> Zeros(6), SubAuthority |-> <<>>]

(* subCount += 1 on a byte. *)
ByteInc(c) == (c + 1) % 256

---------------------------------------------------------------------------
(* func (s *RPCSID) String() string                                        *)

(* for _, sub := range s.SubAuthority: the text written for the entries   *)
(* lo..hi, in order (the range is halved to keep the evaluation shallow).  *)
RECURSIVE RenderSubs(_, _, _)
RenderSubs(subs, lo, hi) ==
    IF lo > hi THEN <<>>
    ELSE IF lo = hi THEN <<"-">> \o FormatUint(subs[lo])
    ELSE LET mid == (lo + hi) \div 2
         IN  RenderSubs(subs, lo, mid) \o RenderSubs(subs, mid + 1, hi)

RenderAuthority(s) ==
    LET b  == Zeros(2) \o s.IdentifierAuthority
        i0 == BigEndianUint64(b)
    IN  IF GtMaxUint32(i0)
        THEN <<"0", "x">> \o HexEncodeToString(s.IdentifierAuthority)
        ELSE FormatUint(i0)

String(s) ==
    <<"S", "-", "1", "-">> \o RenderAuthority(s)
        \o RenderSubs(s.SubAuthority, 1, Len(s.SubAuthority))

---------------------------------------------------------------------------
(* func ConvertStrToSID(s string) (sid *RPCSID, err error)                 *)

MinParts == 4

TooFewParts(parts) == Len(parts) < MinParts

(* authBuf := make([]byte, 2, 6); AppendUint32; copy into the array. *)
AuthorityBytesOff(auth) ==
    LET authBuf == BigEndianAppendUint32(<<>>, Uint32(auth))
    IN  [k \in 1..6 |-> IF k <= Len(authBuf) THEN authBuf[k] ELSE 0]

AuthorityBytes(auth) ==
    LET authBuf == BigEndianAppendUint32(Zeros(2), Uint32(auth))
    IN  [k \in 1..6 |-> IF k <= Len(authBuf) THEN authBuf[k] ELSE 0]

(* One iteration of the loop over parts[3:], on the values parsed so far   *)
(* and the running 8-bit count; a failure ends the call, so no iteration   *)
(* follows it.                                                             *)
SubAuthStep(acc, part) ==
    IF acc.cause # "nil" THEN acc
    ELSE LET subA == ParseUint(part)
         IN  IF subA.cause # "nil"
             THEN [cause |-> subA.cause, subAuths |-> <<>>, subCount |-> 0]
             ELSE [cause |-> "nil",
                   subAuths |-> Append(acc.subAuths, Uint32(subA.val)),
                   subCount |-> ByteInc(acc.subCount)]

(* The iterations for parts lo..hi, left to right (the range is halved to  *)
(* keep the evaluation shallow; the order of the iterations is the loop's).*)
RECURSIVE SubAuthLoop(_, _, _, _)
SubAuthLoop(parts, lo, hi, acc) ==
    IF lo > hi THEN acc
    ELSE IF lo = hi THEN SubAuthStep(acc, parts[lo])
    ELSE LET mid  == (lo + hi) \div 2
             left == SubAuthLoop(parts, lo, mid, acc)
         IN  IF left.cause # "nil" THEN left
             ELSE SubAuthLoop(parts, mid + 1, hi, left)

ConvertStrToSID(s) ==
    LET parts == Split(s, "-")
    IN  IF TooFewParts(parts)
        THEN [sid |-> <<EmptySID>>,
              err |-> [kind |-> "format", cause |-> "nil"]]
        ELSE
        LET rev == ParseUint(parts[2])
        IN  IF rev.cause # "nil"
            THEN [sid |-> <<>>,
                  err |-> [kind |-> "revision", cause |-> rev.cause]]
            ELSE
            LET auth == ParseUint(parts[3])
            IN  IF auth.cause # "nil"
                THEN [sid |-> <<>>,
                      err |-> [kind |-> "authority", cause |-> auth.cause]]
                ELSE
                LET loop == SubAuthLoop(parts, 4, Len(parts),
                                        [cause |-> "nil", subAuths |-> <<>>,
                                         subCount |-> 0])
                IN  IF loop.cause # "nil"
                    THEN [sid |-> <<>>,
                          err |-> [kind |-> "subauthority",
                                   cause |-> loop.cause]]
                    ELSE [sid |-> <<[Revision |-> Byte(rev.val),
                                     SubAuthorityCount |-> loop.subCount,
                                     IdentifierAuthority |->
                                         AuthorityBytes(auth.val),
                                     SubAuthority |-> loop.subAuths]>>,
                          err |-> NoErr]

---------------------------------------------------------------------------
(* Bounds and the values the operations are applied to                     *)

MaxSubs == 3

MaxParts == 5

MaxRun == 257

SeqsUpTo(S, n) == UNION {[1..k -> S] : k \in 0..n}

RECURSIVE Join(_, _)
Join(parts, sep) ==
    IF Len(parts) = 1 THEN parts[1]
    ELSE parts[1] \o <<sep>> \o Join(Tail(parts), sep)

Revisions == {0, 1, 2, 255}

Authorities ==
    { <<0, 0, 0, 0, 0, 0>>, <<0, 0, 0, 0, 0, 5>>, <<0, 0, 0, 0, 1, 0>>,
      <<0, 0, 255, 255, 255, 255>>, <<0, 1, 0, 0, 0, 0>>,
      <<1, 0, 0, 0, 0, 0>>, <<18, 52, 86, 120, 154, 188>> }

SubValues ==
    { <<0, 0, 0, 0>>, <<0, 0, 0, 21>>, <<0, 0, 3, 245>>,
      <<215, 254, 247, 199>>, <<255, 255, 255, 255>> }

(* SID values with SubAuthorityCount = len(SubAuthority). *)
ConsistentSIDs ==
    { [Revision |-> r, SubAuthorityCount |-> Len(subs),
       IdentifierAuthority |-> a, SubAuthority |-> subs] :
        r \in Revisions, a \in Authorities, subs \in SeqsUpTo(SubValues, MaxSubs) }

FirstTokens == { <<"S">>, <<>>, <<"x">> }

Tokens ==
    { <<"1">>, <<"0", "0", "7">>, <<>>, <<"a">>,
      <<"4", "2", "9", "4", "9", "6", "7", "2", "9", "5">>,
      <<"4", "2", "9", "4", "9", "6", "7", "2", "9", "6">> }

KnownVector ==
    <<"S", "-", "1", "-", "5", "-", "2", "1", "-",
      "3", "6", "2", "3", "8", "1", "1", "0", "1", "5", "-",
      "3", "3", "6", "1", "0", "4", "4", "3", "4", "8", "-",
      "3", "0", "3", "0", "0", "8", "2", "0", "-", "1", "0", "1", "3">>

(* "S-1-5" followed by n times "-1". *)
Run(n) == <<"S", "-", "1", "-", "5">> \o [k \in 1..(2 * n) |-> IF k % 2 = 1 THEN "-" ELSE "1"]

Inputs ==
    { Join(<<f>> \o ps, "-") :
        f \in FirstTokens, ps \in SeqsUpTo(Tokens, MaxParts - 1) }
    \cup { KnownVector,
           <<"S", "-", "1", "-", "5">>,
           <<"S", "-", "1", "-", "5", "-", "2", "1">>,
           <<"S", "-", "1", "-", "5", "-", "a", "b", "c">>,
           <<"S", "-", "2", "-", "5", "-", "2", "1">>,
           <<"S", "-", "3", "0", "0", "-", "0", "-", "0">>,
           <<"S", "-", "1", "-", "0", "x", "0", "1", "0", "0", "0", "0",
             "0", "0", "0", "0", "0", "0", "-", "2", "1">>,
           <<"S", "-", "1", "-", "5", "-", "9", "9", "9", "9", "9", "9",
             "9", "9", "9", "9", "9", "x">> }
    \cup { Run(n) : n \in 254..MaxRun }

NoResult == [sid |-> <<>>, err |-> NoErr]

WriterIdle == i = 0 /\ calls = <<>> /\ sink = <<>> /\ ret = NoErr

---------------------------------------------------------------------------
(* Rendering a value, then parsing what was rendered                       *)

InitString ==
    /\ pc = "start"
    /\ sid \in ConsistentSIDs
    /\ input = <<>>
    /\ out = <<>>
    /\ res = NoResult
    /\ WriterIdle

CallString ==
    /\ pc = "start"
    /\ out' = String(sid)
    /\ pc' = "rendered"
    /\ UNCHANGED <<sid, input, res, i, calls, sink, ret>>

ParseRendered ==
    /\ pc = "rendered"
    /\ input' = out
    /\ res' = ConvertStrToSID(out)
    /\ pc' = "parsed"
    /\ UNCHANGED <<sid, out, i, calls, sink, ret>>

NextString == CallString \/ ParseRendered

SpecString == InitString /\ [][NextString]_vars

---------------------------------------------------------------------------
(* Parsing a string, then rendering what was parsed                        *)

InitParse ==
    /\ pc = "start"
    /\ sid = EmptySID
    /\ input \in Inputs
    /\ out = <<>>
    /\ res = NoResult
    /\ WriterIdle

CallConvert ==
    /\ pc = "start"
    /\ res' = ConvertStrToSID(input)
    /\ pc' = "parsed"
    /\ UNCHANGED <<sid, input, out, i, calls, sink, ret>>

RenderParsed ==
    /\ pc = "parsed"
    /\ res.err = NoErr
    /\ sid' = res.sid[1]
    /\ out' = String(res.sid[1])
    /\ pc' = "rendered"
    /\ UNCHANGED <<input, res, i, calls, sink, ret>>

NextParse == CallConvert \/ RenderParsed

SpecParse == InitParse /\ [][NextParse]_vars

---------------------------------------------------------------------------
(* func (s *RPCSID) ToWriter(w io.Writer) (err error)                      *)
(*                                                                         *)
(* Every binary.Write issues one w.Write call.  The sink either accepts    *)
(* the bytes, or rejects the call with an error after taking fewer bytes   *)
(* than it was given.  calls is the sequence of w.Write calls issued, sink *)
(* the bytes the sink took, ret the named result err, i the loop index.    *)

MaxCount == 5

SinkErrors ==
    { [kind |-> "sink", cause |-> "EPIPE"],
      [kind |-> "sink", cause |-> "ENOSPC"] }

IndexOutOfRange == [kind |-> "panic", cause |-> "index out of range"]

WriterValues == { <<0, 0, 0, 10>>, <<0, 0, 0, 20>>, <<0, 0, 0, 30>> }

(* SID values built by field assignment: the count is any byte value, not  *)
(* tied to the length of SubAuthority.                                     *)
WriterSIDs ==
    { [Revision |-> r, SubAuthorityCount |-> c,
       IdentifierAuthority |-> a, SubAuthority |-> subs] :
        r \in {1, 255}, c \in 0..MaxCount,
        a \in { <<0, 0, 0, 0, 0, 5>>, <<18, 52, 86, 120, 154, 188>> },
        subs \in SeqsUpTo(WriterValues, MaxSubs) }

(* if err != nil { return } *)
FailedOff(e) == FALSE

Failed(e) == e # NoErr

(* i < int(s.SubAuthorityCount) *)
LoopCondOff(s, k) == k < s.SubAuthorityCount /\ k < Len(s.SubAuthority)

LoopCond(s, k) == k < s.SubAuthorityCount

(* The run-time bounds check of s.SubAuthority[i]. *)
InRange(s, k) == k < Len(s.SubAuthority)

(* err = binary.Write(w, binary.LittleEndian, data), then the test of err. *)
BinaryWrite(bs, next) ==
    \E e \in {NoErr} \cup SinkErrors :
        \E n \in 0..Len(bs) :
            /\ (e = NoErr) <=> (n = Len(bs))
            /\ calls' = Append(calls, [data |-> bs, err |-> e])
            /\ sink' = sink \o SubSeq(bs, 1, n)
            /\ ret' = e
            /\ pc' = IF Failed(e) THEN "done" ELSE next

Init ==
    /\ pc = "revision"
    /\ sid \in WriterSIDs
    /\ input = <<>>
    /\ out = <<>>
    /\ res = NoResult
    /\ WriterIdle

WriteRevision ==
    /\ pc = "revision"
    /\ BinaryWrite(<<sid.Revision>>, "count")
    /\ UNCHANGED <<sid, input, out, res, i>>

WriteCount ==
    /\ pc = "count"
    /\ BinaryWrite(<<sid.SubAuthorityCount>>, "authority")
    /\ UNCHANGED <<sid, input, out, res, i>>

WriteAuthority ==
    /\ pc = "authority"
    /\ BinaryWrite(sid.IdentifierAuthority, "loop")
    /\ UNCHANGED <<sid, input, out, res, i>>

WriteSubAuthority ==
    /\ pc = "loop"
    /\ LoopCond(sid, i)
    /\ InRange(sid, i)
    /\ BinaryWrite(LittleEndianPutUint32(sid.SubAuthority[i + 1]), "loop")
    /\ i' = IF pc' = "loop" THEN i + 1 ELSE i
    /\ UNCHANGED <<sid, input, out, res>>

(* s.SubAuthority[i] with i >= len(s.SubAuthority): the run-time panic. *)
IndexPanic ==
    /\ pc = "loop"
    /\ LoopCond(sid, i)
    /\ ~InRange(sid, i)
    /\ ret' = IndexOutOfRange
    /\ pc' = "panicked"
    /\ UNCHANGED <<sid, input, out, res, i, calls, sink>>

Return ==
    /\ pc = "loop"
    /\ ~LoopCond(sid, i)
    /\ pc' = "done"
    /\ UNCHANGED <<sid, input, out, res, i, calls, sink, ret>>

Next ==
    \/ WriteRevision
    \/ WriteCount
    \/ WriteAuthority
    \/ WriteSubAuthority
    \/ IndexPanic
    \/ Return

Spec == Init /\ [][Next]_vars

---------------------------------------------------------------------------
(* Vocabulary of the properties, defined apart from the operators above    *)

(* The dash-separated parts of a string: a dash alone has two empty parts, *)
(* any other character is one part, and the parts of a concatenation are   *)
(* those of the two halves with the last and the first run together.       *)
RECURSIVE PartsOf(_)
PartsOf(s) ==
    IF Len(s) = 0 THEN << <<>> >>
    ELSE IF Len(s) = 1 THEN (IF s[1] = "-" THEN << <<>>, <<>> >> ELSE <<s>>)
    ELSE LET h == Len(s) \div 2
             l == PartsOf(SubSeq(s, 1, h))
             r == PartsOf(SubSeq(s, h + 1, Len(s)))
         IN  SubSeq(l, 1, Len(l) - 1) \o <<l[Len(l)] \o r[1]>> \o Tail(r)

AllDigits(p) == \A k \in 1..Len(p) : p[k] \in {DigitChars[d] : d \in 1..10}

RECURSIVE StripZeros(_)
StripZeros(p) ==
    IF p # <<>> /\ p[1] = "0" THEN StripZeros(Tail(p)) ELSE p

MaxUint32Text == <<"4", "2", "9", "4", "9", "6", "7", "2", "9", "5">>

DigitOf(c) == CHOOSE d \in 0..9 : DigitChars[d + 1] = c

(* For digit strings of equal length: p <= q as numbers. *)
DigitsLeq(p, q) ==
    \/ p = q
    \/ \E k \in 1..Len(p) :
          /\ DigitOf(p[k]) < DigitOf(q[k])
          /\ \A j \in 1..(k - 1) : p[j] = q[j]

(* The digit string p denotes a value <= 4294967295. *)
DecimalLeqMax(p) ==
    LET t == StripZeros(p)
    IN  \/ Len(t) < Len(MaxUint32Text)
        \/ Len(t) = Len(MaxUint32Text) /\ DigitsLeq(t, MaxUint32Text)

(* A non-empty string of decimal digits with value <= 4294967295. *)
IsUint32Text(p) == p # <<>> /\ AllDigits(p) /\ DecimalLeqMax(p)

(* The same, without leading zeros. *)
IsCanonical(p) == IsUint32Text(p) /\ (Len(p) > 1 => p[1] # "0")

(* The value of such a string as two base-65536 digits <<high, low>>. *)
RECURSIVE Limbs(_)
Limbs(p) ==
    IF p = <<>> THEN <<0, 0>>
    ELSE LET h  == Limbs(SubSeq(p, 1, Len(p) - 1))
             lo == h[2] * 10 + DigitOf(p[Len(p)])
         IN  <<h[1] * 10 + (lo \div 65536), lo % 65536>>

(* The four bytes b, most significant first, as two base-65536 digits. *)
LimbsOfBytes(b) == <<b[1] * 256 + b[2], b[3] * 256 + b[4]>>

(* The decimal text of a small natural number. *)
RECURSIVE TextOfNat(_)
TextOfNat(n) ==
    IF n < 10 THEN <<DigitChars[n + 1]>>
    ELSE TextOfNat(n \div 10) \o <<DigitChars[(n % 10) + 1]>>

HexDigits ==
    [c \in {"0", "1", "2", "3", "4", "5", "6", "7", "8", "9",
            "a", "b", "c", "d", "e", "f"} |->
        CASE c = "0" -> 0 [] c = "1" -> 1 [] c = "2" -> 2 [] c = "3" -> 3
          [] c = "4" -> 4 [] c = "5" -> 5 [] c = "6" -> 6 [] c = "7" -> 7
          [] c = "8" -> 8 [] c = "9" -> 9 [] c = "a" -> 10 [] c = "b" -> 11
          [] c = "c" -> 12 [] c = "d" -> 13 [] c = "e" -> 14 [] c = "f" -> 15]

AuthorityFits(s) == s.IdentifierAuthority[1] = 0 /\ s.IdentifierAuthority[2] = 0

---------------------------------------------------------------------------
(* Properties of String and ConvertStrToSID, rendering first (SpecString)  *)

(* C1: for every SID whose SubAuthorityCount equals len(SubAuthority) and  *)
(* whose authority is <= 4294967295 (any revision, any number of           *)
(* sub-authorities, zero included), ConvertStrToSID(V.String()) succeeds   *)
(* and returns a SID equal to V field by field.                            *)
C1_StringRoundTrip ==
    (/\ pc = "parsed"
     /\ sid.SubAuthorityCount = Len(sid.SubAuthority)
     /\ AuthorityFits(sid))
    => /\ res.err = NoErr
       /\ Len(res.sid) = 1
       /\ res.sid[1].Revision = sid.Revision
       /\ res.sid[1].SubAuthorityCount = sid.SubAuthorityCount
       /\ res.sid[1].IdentifierAuthority = sid.IdentifierAuthority
       /\ res.sid[1].SubAuthority = sid.SubAuthority

(* C2: String() renders the second dash-separated segment as the decimal   *)
(* value of the Revision field: the output starts with "S-<r>-".           *)
C2_RevisionRendered ==
    pc = "rendered"
    => LET ps == PartsOf(out)
       IN  /\ Len(ps) >= 3
           /\ ps[1] = <<"S">>
           /\ ps[2] = TextOfNat(sid.Revision)

(* C8: reading the 6 IdentifierAuthority bytes as a 48-bit big-endian      *)
(* integer a, the authority segment of String() is the decimal text of a   *)
(* when a <= 4294967295, and "0x" followed by the 12 lowercase hex         *)
(* characters of the 6 raw bytes when a > 4294967295.                      *)
C8_AuthorityThreshold ==
    pc \in {"rendered", "parsed"}
    => LET a   == sid.IdentifierAuthority
           ps  == PartsOf(out)
           seg == ps[3]
       IN  /\ Len(ps) >= 3
           /\ AuthorityFits(sid)
                => /\ IsCanonical(seg)
                   /\ Limbs(seg) = LimbsOfBytes(SubSeq(a, 3, 6))
           /\ ~AuthorityFits(sid)
                => /\ Len(seg) = 14
                   /\ seg[1] = "0" /\ seg[2] = "x"
                   /\ \A k \in 1..6 :
                        /\ seg[2 * k + 1] \in DOMAIN HexDigits
                        /\ seg[2 * k + 2] \in DOMAIN HexDigits
                        /\ HexDigits[seg[2 * k + 1]] * 16
                              + HexDigits[seg[2 * k + 2]] = a[k]
           /\ a = <<0, 0, 0, 0, 0, 5>> => seg = <<"5">>
           /\ a = <<0, 0, 255, 255, 255, 255>> => seg = MaxUint32Text
           /\ a = <<1, 0, 0, 0, 0, 0>>
                => seg = <<"0", "x", "0", "1", "0", "0", "0", "0", "0", "0",
                           "0", "0", "0", "0">>

C8_Witness ==
    /\ pc = "rendered"
    /\ sid.IdentifierAuthority = <<0, 0, 255, 255, 255, 255>>
    /\ sid.SubAuthority = << <<0, 0, 0, 21>> >>
    /\ out = <<"S", "-", "1", "-">> \o MaxUint32Text \o <<"-", "2", "1">>

---------------------------------------------------------------------------
(* Properties of ConvertStrToSID and String, parsing first (SpecParse)     *)

(* C3: on every failure path of ConvertStrToSID the call returns a non-nil *)
(* error together with a nil *RPCSID, never an error alongside a non-nil   *)
(* SID.                                                                    *)
C3_NoSIDOnFailure ==
    (pc = "parsed" /\ res.err # NoErr) => res.sid = <<>>

(* C4: whenever ConvertStrToSID succeeds, the returned SID satisfies       *)
(* SubAuthorityCount = len(SubAuthority), for any number of segments.      *)
C4_CountMatchesLength ==
    (pc = "parsed" /\ res.err = NoErr)
    => res.sid[1].SubAuthorityCount = Len(res.sid[1].SubAuthority)

IsCanonicalSIDText(s) ==
    LET ps == PartsOf(s)
    IN  /\ Len(ps) >= 4
        /\ ps[1] = <<"S">>
        /\ ps[2] = <<"1">>
        /\ \A k \in 3..Len(ps) : IsCanonical(ps[k])

(* C9: for every s = "S-1-<a>-<s1>-...-<sn>", n >= 1, with a and each si   *)
(* canonical decimal numerals <= 4294967295, ConvertStrToSID(s) succeeds   *)
(* with Revision 1, a stored big-endian in IdentifierAuthority bytes 2..5  *)
(* (bytes 0..1 zero), SubAuthority = [s1..sn], and String() of the result  *)
(* equals s.                                                               *)
C9_ParseThenRender ==
    (pc \in {"parsed", "rendered"} /\ IsCanonicalSIDText(input))
    => /\ res.err = NoErr
       /\ Len(res.sid) = 1
       /\ LET v  == res.sid[1]
              ps == PartsOf(input)
          IN  /\ v.Revision = 1
              /\ v.IdentifierAuthority[1] = 0
              /\ v.IdentifierAuthority[2] = 0
              /\ LimbsOfBytes(SubSeq(v.IdentifierAuthority, 3, 6)) = Limbs(ps[3])
              /\ Len(v.SubAuthority) = Len(ps) - 3
              /\ \A k \in 1..Len(v.SubAuthority) :
                    LimbsOfBytes(v.SubAuthority[k]) = Limbs(ps[k + 3])
              /\ input = KnownVector
                    => /\ v.IdentifierAuthority = <<0, 0, 0, 0, 0, 5>>
                       /\ v.SubAuthority =
                            << <<0, 0, 0, 21>>, <<215, 254, 247, 199>>,
                               <<200, 85, 119, 124>>, <<1, 206, 90, 148>>,
                               <<0, 0, 3, 245>> >>
       /\ pc = "rendered" => (sid = res.sid[1] /\ out = input)

C9_Witness ==
    /\ pc = "rendered"
    /\ input = KnownVector
    /\ sid.SubAuthorityCount = 5
    /\ out = KnownVector

FieldOfPart(k) ==
    IF k = 2 THEN "revision" ELSE IF k = 3 THEN "authority" ELSE "subauthority"

(* C10: ConvertStrToSID succeeds if and only if the input has at least 4   *)
(* dash-separated parts and every part at index >= 1 is a non-empty string *)
(* of decimal digits with value <= 4294967295; part 0 is never inspected.  *)
(* With fewer than 4 parts the error is the format error; otherwise it is  *)
(* the conversion error of the first offending field in the order          *)
(* revision, authority, sub-authorities left to right.                     *)
C10_Acceptance ==
    pc \in {"parsed", "rendered"}
    => LET ps  == PartsOf(input)
           bad == {k \in 2..Len(ps) : ~IsUint32Text(ps[k])}
       IN  /\ (res.err = NoErr) <=> (Len(ps) >= 4 /\ bad = {})
           /\ Len(ps) < 4 => res.err.kind = "format"
           /\ (Len(ps) >= 4 /\ bad # {})
                => res.err.kind =
                     FieldOfPart(CHOOSE k \in bad : \A j \in bad : k <= j)

C10_Witness ==
    /\ pc = "parsed"
    /\ input = <<"x", "-", "1", "-", "a", "-", "0", "0", "7", "-">>
    /\ res.err = [kind |-> "authority", cause |-> "syntax"]

---------------------------------------------------------------------------
(* Properties of ToWriter (Spec)                                           *)

Terminated == pc \in {"done", "panicked"}

AllAccepted == \A k \in 1..Len(calls) : calls[k].err = NoErr

(* The k-th write ToWriter is to issue for the value s. *)
FieldBytes(s, k) ==
    IF k = 1 THEN <<s.Revision>>
    ELSE IF k = 2 THEN <<s.SubAuthorityCount>>
    ELSE IF k = 3 THEN s.IdentifierAuthority
    ELSE LET v == s.SubAuthority[k - 3] IN <<v[4], v[3], v[2], v[1]>>

(* C5: when SubAuthorityCount is greater than len(SubAuthority), ToWriter  *)
(* fails with an explicit out-of-range error instead of reading past the   *)
(* end: it never emits a sub-authority value that is not an element of     *)
(* SubAuthority, and it does not report success.  (The failure is the      *)
(* index-out-of-range panic at the first index past the end, unless the    *)
(* sink rejected an earlier write and ended the call there.)               *)
C5_BoundsError ==
    sid.SubAuthorityCount > Len(sid.SubAuthority)
    => /\ Len(calls) <= 3 + Len(sid.SubAuthority)
       /\ \A k \in 4..Len(calls) : calls[k].data = FieldBytes(sid, k)
       /\ Terminated => ret # NoErr
       /\ (Terminated /\ AllAccepted)
            => /\ pc = "panicked"
               /\ ret = IndexOutOfRange
               /\ i = Len(sid.SubAuthority)
               /\ Len(calls) = 3 + Len(sid.SubAuthority)

C5_Witness ==
    /\ pc = "panicked"
    /\ sid.SubAuthorityCount = 5
    /\ sid.SubAuthority = << <<0, 0, 0, 10>>, <<0, 0, 0, 20>>, <<0, 0, 0, 30>> >>
    /\ Len(calls) = 6
    /\ ret = IndexOutOfRange

(* C6: when SubAuthorityCount <= len(SubAuthority) and the sink accepts    *)
(* every write, ToWriter appends exactly 8 + 4*SubAuthorityCount bytes:    *)
(* Revision, SubAuthorityCount, the 6 IdentifierAuthority bytes in stored  *)
(* order, then SubAuthority[0..SubAuthorityCount-1] each as 4 bytes        *)
(* little-endian; entries at index >= SubAuthorityCount are not written.   *)
C6_BinaryLayout ==
    (/\ Terminated
     /\ sid.SubAuthorityCount <= Len(sid.SubAuthority)
     /\ AllAccepted)
    => /\ pc = "done"
       /\ ret = NoErr
       /\ Len(sink) = 8 + 4 * sid.SubAuthorityCount
       /\ \A k \in 1..Len(sink) :
            sink[k] =
              IF k = 1 THEN sid.Revision
              ELSE IF k = 2 THEN sid.SubAuthorityCount
              ELSE IF k <= 8 THEN sid.IdentifierAuthority[k - 2]
              ELSE sid.SubAuthority[((k - 9) \div 4) + 1][4 - ((k - 9) % 4)]

C6_Witness ==
    /\ pc = "done"
    /\ sid.Revision = 1
    /\ sid.SubAuthorityCount = 2
    /\ sid.SubAuthority = << <<0, 0, 0, 10>>, <<0, 0, 0, 20>>, <<0, 0, 0, 30>> >>
    /\ sink = <<1, 2, 0, 0, 0, 0, 0, 5, 10, 0, 0, 0, 20, 0, 0, 0>>

(* C7: if the sink rejects the k-th write issued by ToWriter (the order is *)
(* revision, count, authority, sub-authority 0, 1, ...), ToWriter returns  *)
(* that sink error and issues no write after the rejected one; the fields  *)
(* before the k-th were each written exactly once and in order.            *)
C7_StopAtSinkError ==
    \A k \in 1..Len(calls) :
        /\ calls[k].data = FieldBytes(sid, k)
        /\ calls[k].err # NoErr
             => /\ k = Len(calls)
                /\ pc = "done"
                /\ ret = calls[k].err

C7_Witness ==
    /\ pc = "done"
    /\ Len(calls) = 5
    /\ calls[4].err = NoErr
    /\ calls[5].err = [kind |-> "sink", cause |-> "ENOSPC"]
    /\ ret = [kind |-> "sink", cause |-> "ENOSPC"]
    /\ Len(sink) = 14

===========================================================================
